---- MODULE Spec2Model ----
(***************************************************************************)
(* The encoder of the Spherical U-Net                                      *)
(* (src/deepsphere/models/spherical_unet/encoder.py, utils.py) as a state  *)
(* machine: construction of the modules, train()/eval() mode switches,     *)
(* and Encoder.forward stepping through its six stages.                    *)
(*                                                                         *)
(* A tensor is abstracted to its shape [batch x nodes x channels], the     *)
(* name of the program variable that holds it (src) and a flag neg that    *)
(* tells whether its values may be negative.  Python lists are sequences   *)
(* (1-based here) read through PyIndex, which computes Python's indexing   *)
(* including negative indices.  An optional value is <<>> (None) or <<v>>. *)
(***************************************************************************)
EXTENDS Integers, Sequences, FiniteSets, TLC

VARIABLES
    ctor,      \* arguments and outcome of the last Encoder/EncoderTemporalConv constructor call
    enc,       \* the constructed encoder: <<>> or <<object>>
    layer,     \* the last SphericalChebConv constructed on its own: <<>> or <<object>>
    training,  \* nn.Module.training of the encoder and all its sub-modules
    running,   \* num_batches_tracked of every BatchNorm1d (version of its running mean/var)
    pc,        \* position inside Encoder.forward, "idle" outside a call
    x,         \* argument of the current/last forward call: <<>> or <<tensor>>
    xs,        \* forward's locals x_enc0..x_enc5: level -> <<>> or <<tensor>>
    calls,     \* stage invocations of the current/last forward call, in order
    result,    \* value returned by the last forward call: <<>> or the 5-tuple
    raised     \* exception raised by the last forward call, "none" if none

vars == <<ctor, enc, layer, training, running, pc, x, xs, calls, result, raised>>

(***************************************************************************)
(* Bounds of the model.                                                    *)
(***************************************************************************)
MaxBatch == 2
MaxSeqLen == 2
MaxTracked == 2
ListSlack == 1
KernelSize == 3
BaseNodes == 1
PoolRatio == 2

(***************************************************************************)
(* Program constants.                                                      *)
(***************************************************************************)
REQUIRED_LEVELS == 6
LAMBDA_MAX == 2
L5_IN == 16
L5_MID == 32
L5_OUT == 64
L4_OUT == 128
L3_OUT == 256
L2_OUT == 512
L1_OUT == 512
L0_OUT == 512

Levels == 0..5
NoError == "none"
LaplacianTypes == {"normalized", "combinatorial"}

(***************************************************************************)
(* Inputs supplied by the external mesh collaborator.                      *)
(***************************************************************************)
NodeCount(l) == BaseNodes * PoolRatio ^ l

\* edge_index of mesh level l: it references the nodes 0..NodeCount(l)-1
EdgeIndex(l) == [mesh |-> l, nodes |-> NodeCount(l)]

\* edge_weight of mesh level l
EdgeWeight(l) == [mesh |-> l]

\* a Python list of n level descriptors, element i (0-based) describing level i
EdgeIndexList(n) == [i \in 1..n |-> EdgeIndex(i - 1)]

EdgeWeightList(n, weighted) ==
    [i \in 1..n |-> IF weighted THEN <<EdgeWeight(i - 1)>> ELSE <<>>]

ListLengths == (REQUIRED_LEVELS - ListSlack)..(REQUIRED_LEVELS + ListSlack)

LaplacianInputs == LaplacianTypes \cup {"invalid"}

\* the pooling module handed to the constructor (one shared object)
Pooling == [ratio |-> PoolRatio]

\* Python's list[i]: 0-based, negative i counts from the end
PyIndex(list, i) == IF i >= 0 THEN list[i + 1] ELSE list[Len(list) + i + 1]

(***************************************************************************)
(* Constructors.  Each returns [raised, obj]: the exception raised          *)
(* (NoError if none) and the object built, <<>> when none was built.        *)
(***************************************************************************)

\* SphericalChebConvInit checking laplacian_type only after the buffers are registered
SphericalChebConvInit_LateAssert(in_channels, out_channels, kernel_size, edge_index, edge_weight, laplacian_type) ==
    [raised |-> IF laplacian_type \notin LaplacianTypes THEN "AssertionError" ELSE NoError,
     obj |-> <<[buffers |-> IF edge_weight = <<>>
                            THEN {"edge_index", "lambda_max"}
                            ELSE {"edge_index", "edge_weight", "lambda_max"},
                edge_index |-> <<edge_index>>,
                edge_weight |-> edge_weight,
                lambda_max |-> <<LAMBDA_MAX>>,
                chebconv |-> IF laplacian_type \notin LaplacianTypes
                             THEN <<>>
                             ELSE <<[in_channels |-> in_channels,
                                     out_channels |-> out_channels,
                                     K |-> kernel_size,
                                     normalization |-> IF laplacian_type = "normalized"
                                                       THEN "sym" ELSE "None"]>>]>>]

\* SphericalChebConv.__init__ .  When the assert fails the object exists only
\* as far as super().__init__() built it: no buffer, no chebconv.
SphericalChebConvInit(in_channels, out_channels, kernel_size, edge_index, edge_weight, laplacian_type) ==
    IF laplacian_type \notin LaplacianTypes
    THEN [raised |-> "AssertionError",
          obj |-> <<[buffers |-> {}, edge_index |-> <<>>, edge_weight |-> <<>>,
                     lambda_max |-> <<>>, chebconv |-> <<>>]>>]
    ELSE [raised |-> NoError,
          obj |-> <<[buffers |-> IF edge_weight = <<>>
                                 THEN {"edge_index", "lambda_max"}
                                 ELSE {"edge_index", "edge_weight", "lambda_max"},
                     edge_index |-> <<edge_index>>,
                     edge_weight |-> edge_weight,
                     lambda_max |-> <<LAMBDA_MAX>>,
                     chebconv |-> <<[in_channels |-> in_channels,
                                     out_channels |-> out_channels,
                                     K |-> kernel_size,
                                     normalization |-> IF laplacian_type = "normalized"
                                                       THEN "sym" ELSE "None"]>>]>>]

\* SphericalChebBN.__init__ ; name is the module path of its BatchNorm1d
SphericalChebBNInit(in_channels, out_channels, kernel_size, edge_index, edge_weight, laplacian_type, name) ==
    LET conv == SphericalChebConvInit(in_channels, out_channels, kernel_size,
                                      edge_index, edge_weight, laplacian_type)
    IN  IF conv.raised # NoError
        THEN [raised |-> conv.raised, obj |-> <<>>]
        ELSE [raised |-> NoError,
              obj |-> <<[spherical_cheb |-> conv.obj[1],
                         batchnorm |-> [num_features |-> out_channels,
                                        affine |-> FALSE,
                                        name |-> name]]>>]

\* SphericalChebBN2.__init__
SphericalChebBN2Init(in_channels, middle_channels, out_channels, kernel_size, edge_index, edge_weight, laplacian_type) ==
    LET bn1 == SphericalChebBNInit(in_channels, middle_channels, kernel_size,
                                   edge_index, edge_weight, laplacian_type, "enc_l5.bn_1")
        bn2 == SphericalChebBNInit(middle_channels, out_channels, kernel_size,
                                   edge_index, edge_weight, laplacian_type, "enc_l5.bn_2")
    IN  IF bn1.raised # NoError THEN [raised |-> bn1.raised, obj |-> <<>>]
        ELSE IF bn2.raised # NoError THEN [raised |-> bn2.raised, obj |-> <<>>]
        ELSE [raised |-> NoError,
              obj |-> <<[class |-> "SphericalChebBN2",
                         in_channels |-> in_channels,
                         out_channels |-> out_channels,
                         spherical_cheb_bn_1 |-> bn1.obj[1],
                         spherical_cheb_bn_2 |-> bn2.obj[1]]>>]

\* SphericalChebBNPool.__init__
SphericalChebBNPoolInit(in_channels, out_channels, pooling, kernel_size, edge_index, edge_weight, laplacian_type, name) ==
    LET bn == SphericalChebBNInit(in_channels, out_channels, kernel_size,
                                  edge_index, edge_weight, laplacian_type, name)
    IN  IF bn.raised # NoError THEN [raised |-> bn.raised, obj |-> <<>>]
        ELSE [raised |-> NoError,
              obj |-> <<[class |-> "SphericalChebBNPool",
                         pooling |-> pooling,
                         spherical_cheb_bn |-> bn.obj[1]]>>]

\* SphericalChebPool.__init__
SphericalChebPoolInit(in_channels, out_channels, pooling, kernel_size, edge_index, edge_weight, laplacian_type) ==
    LET conv == SphericalChebConvInit(in_channels, out_channels, kernel_size,
                                      edge_index, edge_weight, laplacian_type)
    IN  IF conv.raised # NoError THEN [raised |-> conv.raised, obj |-> <<>>]
        ELSE [raised |-> NoError,
              obj |-> <<[class |-> "SphericalChebPool",
                         pooling |-> pooling,
                         spherical_cheb |-> conv.obj[1]]>>]

\* the six stages Encoder.__init__ builds, in the order it builds them
EncL5Init(pooling, kernel_size, eil, ewl, lap) ==
    SphericalChebBN2Init(L5_IN, L5_MID, L5_OUT, kernel_size,
                         PyIndex(eil, 5), PyIndex(ewl, 5), lap)

EncL4Init(pooling, kernel_size, eil, ewl, lap) ==
    SphericalChebBNPoolInit(L5_OUT, L4_OUT, pooling, kernel_size,
                            PyIndex(eil, 4), PyIndex(ewl, 4), lap, "enc_l4.bn")

EncL3Init(pooling, kernel_size, eil, ewl, lap) ==
    SphericalChebBNPoolInit(L4_OUT, L3_OUT, pooling, kernel_size,
                            PyIndex(eil, 3), PyIndex(ewl, 3), lap, "enc_l3.bn")

EncL2Init(pooling, kernel_size, eil, ewl, lap) ==
    SphericalChebBNPoolInit(L3_OUT, L2_OUT, pooling, kernel_size,
                            PyIndex(eil, 2), PyIndex(ewl, 2), lap, "enc_l2.bn")

EncL1Init(pooling, kernel_size, eil, ewl, lap) ==
    SphericalChebBNPoolInit(L2_OUT, L1_OUT, pooling, kernel_size,
                            PyIndex(eil, 1), PyIndex(ewl, 1), lap, "enc_l1.bn")

EncL0Init(pooling, kernel_size, eil, ewl, lap) ==
    SphericalChebPoolInit(L1_OUT, L0_OUT, pooling, kernel_size,
                          PyIndex(eil, 0), PyIndex(ewl, 0), lap)

\* LengthsOk accepting hierarchies longer than the required one
LengthsOk_AtLeast(eil, ewl) == Len(eil) = Len(ewl) /\ Len(ewl) >= REQUIRED_LEVELS

\* the check that opens Encoder.__init__
LengthsOk(eil, ewl) == Len(eil) = Len(ewl) /\ Len(ewl) = REQUIRED_LEVELS

\* the first exception among the stage constructors, run in order
FirstRaised(rs) ==
    IF \A i \in 1..Len(rs) : rs[i].raised = NoError
    THEN NoError
    ELSE rs[CHOOSE i \in 1..Len(rs) :
                /\ rs[i].raised # NoError
                /\ \A j \in 1..(i - 1) : rs[j].raised = NoError].raised

\* Encoder.__init__
EncoderInit(pooling, kernel_size, eil, ewl, lap) ==
    IF ~LengthsOk(eil, ewl)
    THEN [raised |-> "AssertionError", obj |-> <<>>]
    ELSE LET s5 == EncL5Init(pooling, kernel_size, eil, ewl, lap)
             s4 == EncL4Init(pooling, kernel_size, eil, ewl, lap)
             s3 == EncL3Init(pooling, kernel_size, eil, ewl, lap)
             s2 == EncL2Init(pooling, kernel_size, eil, ewl, lap)
             s1 == EncL1Init(pooling, kernel_size, eil, ewl, lap)
             s0 == EncL0Init(pooling, kernel_size, eil, ewl, lap)
             e  == FirstRaised(<<s5, s4, s3, s2, s1, s0>>)
         IN  IF e # NoError
             THEN [raised |-> e, obj |-> <<>>]
             ELSE [raised |-> NoError,
                   obj |-> <<[class |-> "Encoder",
                              pooling |-> pooling,
                              kernel_size |-> kernel_size,
                              sequence_length |-> <<>>,
                              enc_l5 |-> s5.obj[1],
                              enc_l4 |-> s4.obj[1],
                              enc_l3 |-> s3.obj[1],
                              enc_l2 |-> s2.obj[1],
                              enc_l1 |-> s1.obj[1],
                              enc_l0 |-> s0.obj[1]]>>]

\* TemporalEncL5Init taking the first (level 0) entry of the lists
TemporalEncL5Init_First(base, sequence_length, kernel_size, eil, ewl, lap) ==
    SphericalChebBN2Init(base.enc_l5.in_channels * sequence_length,
                         base.enc_l5.in_channels * sequence_length,
                         base.enc_l5.out_channels,
                         kernel_size,
                         PyIndex(eil, 0), PyIndex(ewl, 0), lap)

\* the stage EncoderTemporalConv.__init__ puts in place of base.enc_l5
TemporalEncL5Init(base, sequence_length, kernel_size, eil, ewl, lap) ==
    SphericalChebBN2Init(base.enc_l5.in_channels * sequence_length,
                         base.enc_l5.in_channels * sequence_length,
                         base.enc_l5.out_channels,
                         kernel_size,
                         PyIndex(eil, -1), PyIndex(ewl, -1), lap)

\* EncoderTemporalConv.__init__
EncoderTemporalConvInit(pooling, sequence_length, kernel_size, eil, ewl, lap) ==
    LET base == EncoderInit(pooling, kernel_size, eil, ewl, lap)
    IN  IF base.raised # NoError
        THEN base
        ELSE LET l5 == TemporalEncL5Init(base.obj[1], sequence_length,
                                         kernel_size, eil, ewl, lap)
             IN  IF l5.raised # NoError
                 THEN [raised |-> l5.raised, obj |-> <<>>]
                 ELSE [raised |-> NoError,
                       obj |-> <<[base.obj[1] EXCEPT
                                    !.class = "EncoderTemporalConv",
                                    !.sequence_length = <<sequence_length>>,
                                    !.enc_l5 = l5.obj[1]]>>]

BatchNormNames ==
    {"enc_l5.bn_1", "enc_l5.bn_2", "enc_l4.bn", "enc_l3.bn", "enc_l2.bn", "enc_l1.bn"}

(***************************************************************************)
(* Forward passes.  Each returns [raised, out, ops, tracked]: the exception *)
(* raised, the output tensor (the input when it raised), the primitive      *)
(* operations that ran, and the BatchNorm1d units that ran in training      *)
(* mode (whose running statistics were therefore updated).                  *)
(***************************************************************************)
Raise(e, t, ops, tracked) == [raised |-> e, out |-> t, ops |-> ops, tracked |-> tracked]

Return(t, ops, tracked) == [raised |-> NoError, out |-> t, ops |-> ops, tracked |-> tracked]

\* ChebConvForward accepting any number of input channels
ChebConvForward_AnyChannels(chebconv, t, edge_index, edge_weight, lambda_max) ==
    IF edge_index.nodes > t.nodes
    THEN [raised |-> "IndexError", out |-> t, ops |-> <<>>, tracked |-> {}]
    ELSE [raised |-> NoError,
          out |-> [t EXCEPT !.channels = chebconv.out_channels, !.neg = TRUE],
          ops |-> <<"conv">>, tracked |-> {}]

\* torch_geometric ChebConv called on [batch x nodes x channels] with a shared
\* edge_index: the linear maps need channels = in_channels, the Laplacian and
\* the propagation need every edge index below the node count; the output
\* keeps batch and nodes, has out_channels channels and values of any sign.
ChebConvForward(chebconv, t, edge_index, edge_weight, lambda_max) ==
    IF t.channels # chebconv.in_channels
    THEN Raise("RuntimeError", t, <<>>, {})
    ELSE IF edge_index.nodes > t.nodes
    THEN Raise("IndexError", t, <<>>, {})
    ELSE Return([t EXCEPT !.channels = chebconv.out_channels, !.neg = TRUE],
                <<"conv">>, {})

\* SphericalChebConv.forward
SphericalChebConvForward(m, t) ==
    ChebConvForward(m.chebconv[1], t, m.edge_index[1], m.edge_weight, m.lambda_max[1])

\* BatchNorm1dForward updating its running statistics in evaluation mode too
BatchNorm1dForward_AlwaysTracking(bn, t, train) ==
    IF train /\ t.batch * t.nodes <= 1
    THEN [raised |-> "ValueError", out |-> t, ops |-> <<>>, tracked |-> {}]
    ELSE [raised |-> NoError, out |-> [t EXCEPT !.neg = TRUE],
          ops |-> <<"bn">>, tracked |-> {bn.name}]

\* nn.BatchNorm1d(affine=False) on the [batch*nodes x channels] view: in
\* training mode it needs more than one row and updates its running
\* statistics; its output may hold values of any sign.
BatchNorm1dForward(bn, t, train) ==
    IF train /\ t.batch * t.nodes <= 1
    THEN Raise("ValueError", t, <<>>, {})
    ELSE Return([t EXCEPT !.neg = TRUE], <<"bn">>, IF train THEN {bn.name} ELSE {})

\* Relu leaving its argument as it is
Relu_Identity(t) == t

\* Tensor.relu(): negative values are clipped to zero
Relu(t) == [t EXCEPT !.neg = FALSE]

\* SphericalChebBN.forward
SphericalChebBNForward(m, t, train) ==
    LET c == SphericalChebConvForward(m.spherical_cheb, t)
    IN  IF c.raised # NoError THEN c
        ELSE LET b == BatchNorm1dForward(m.batchnorm, c.out, train)
             IN  IF b.raised # NoError
                 THEN Raise(b.raised, t, c.ops, {})
                 ELSE Return(Relu(b.out), c.ops \o b.ops \o <<"relu">>, b.tracked)

\* SphericalChebBN2.forward
SphericalChebBN2Forward(m, t, train) ==
    LET r1 == SphericalChebBNForward(m.spherical_cheb_bn_1, t, train)
    IN  IF r1.raised # NoError THEN r1
        ELSE LET r2 == SphericalChebBNForward(m.spherical_cheb_bn_2, r1.out, train)
             IN  IF r2.raised # NoError
                 THEN Raise(r2.raised, t, r1.ops \o r2.ops, r1.tracked)
                 ELSE Return(r2.out, r1.ops \o r2.ops, r1.tracked \cup r2.tracked)

\* the pooling module: it reduces the node count by its ratio and keeps
\* batch and channels; pooled non-negative values are non-negative
PoolingForward(pooling, t) == [t EXCEPT !.nodes = t.nodes \div pooling.ratio]

\* SphericalChebBNPoolForward convolving before it pools
SphericalChebBNPoolForward_ConvFirst(m, t, train) ==
    LET r == SphericalChebBNForward(m.spherical_cheb_bn, t, train)
    IN  IF r.raised # NoError
        THEN [raised |-> r.raised, out |-> t, ops |-> r.ops, tracked |-> r.tracked]
        ELSE [raised |-> NoError, out |-> PoolingForward(m.pooling, r.out),
              ops |-> r.ops \o <<"pool">>, tracked |-> r.tracked]

\* SphericalChebBNPool.forward
SphericalChebBNPoolForward(m, t, train) ==
    LET p == PoolingForward(m.pooling, t)
        r == SphericalChebBNForward(m.spherical_cheb_bn, p, train)
    IN  IF r.raised # NoError
        THEN Raise(r.raised, t, <<"pool">> \o r.ops, r.tracked)
        ELSE Return(r.out, <<"pool">> \o r.ops, r.tracked)

\* SphericalChebPoolForward ending with an activation
SphericalChebPoolForward_Activated(m, t) ==
    LET p == PoolingForward(m.pooling, t)
        r == SphericalChebConvForward(m.spherical_cheb, p)
    IN  IF r.raised # NoError
        THEN [raised |-> r.raised, out |-> t, ops |-> <<"pool">> \o r.ops, tracked |-> {}]
        ELSE [raised |-> NoError, out |-> Relu(r.out),
              ops |-> <<"pool">> \o r.ops \o <<"relu">>, tracked |-> {}]

\* SphericalChebPool.forward
SphericalChebPoolForward(m, t) ==
    LET p == PoolingForward(m.pooling, t)
        r == SphericalChebConvForward(m.spherical_cheb, p)
    IN  IF r.raised # NoError
        THEN Raise(r.raised, t, <<"pool">> \o r.ops, {})
        ELSE Return(r.out, <<"pool">> \o r.ops, {})

\* the module Encoder.forward calls for level l, applied to t
StageForward(e, l, t, train) ==
    CASE l = 5 -> SphericalChebBN2Forward(e.enc_l5, t, train)
      [] l = 4 -> SphericalChebBNPoolForward(e.enc_l4, t, train)
      [] l = 3 -> SphericalChebBNPoolForward(e.enc_l3, t, train)
      [] l = 2 -> SphericalChebBNPoolForward(e.enc_l2, t, train)
      [] l = 1 -> SphericalChebBNPoolForward(e.enc_l1, t, train)
      [] l = 0 -> SphericalChebPoolForward(e.enc_l0, t)

\* the program variable Encoder.forward assigns the output of level l to
XEnc(l) ==
    CASE l = 5 -> "x_enc5" [] l = 4 -> "x_enc4" [] l = 3 -> "x_enc3"
      [] l = 2 -> "x_enc2" [] l = 1 -> "x_enc1" [] l = 0 -> "x_enc0"

\* StageInput handing x_enc2 instead of x_enc1 to the level-0 stage
StageInput_SkipLevel(l, input, locals) ==
    IF l = 5 THEN input ELSE IF l = 0 THEN locals[2][1] ELSE locals[l + 1][1]

\* the argument Encoder.forward passes to the stage of level l
StageInput(l, input, locals) == IF l = 5 THEN input ELSE locals[l + 1][1]

\* ReturnValue returning the levels 1..5 in place of 0..4
ReturnValue_Shifted(locals) ==
    <<locals[1][1], locals[2][1], locals[3][1], locals[4][1], locals[5][1]>>

\* the tuple Encoder.forward returns
ReturnValue(locals) ==
    <<locals[0][1], locals[1][1], locals[2][1], locals[3][1], locals[4][1]>>

\* position in Encoder.forward before the stage of level l runs
PcOf(l) ==
    CASE l = 5 -> "enc_l5" [] l = 4 -> "enc_l4" [] l = 3 -> "enc_l3"
      [] l = 2 -> "enc_l2" [] l = 1 -> "enc_l1" [] l = 0 -> "enc_l0"

\* position after the stage of level l returned
PcAfter(l) == IF l = 0 THEN "return" ELSE PcOf(l - 1)

(***************************************************************************)
(* Inputs of the operations.                                               *)
(***************************************************************************)
\* feature tensors handed to Encoder.forward: the level-5 node count and its
\* neighbours, 16 channels per stacked frame
InputTensors ==
    [batch : 1..MaxBatch,
     nodes : {NodeCount(5) - 1, NodeCount(5), NodeCount(5) + 1},
     channels : {L5_IN * t : t \in 1..MaxSeqLen},
     neg : BOOLEAN,
     src : {"x"}]

NoLocals == [l \in Levels |-> <<>>]

FreshStatistics == [n \in BatchNormNames |-> 0]

(***************************************************************************)
(* State machine.                                                          *)
(***************************************************************************)
Init ==
    /\ ctor = <<>>
    /\ enc = <<>>
    /\ layer = <<>>
    /\ training = TRUE
    /\ running = FreshStatistics
    /\ pc = "idle"
    /\ x = <<>>
    /\ xs = NoLocals
    /\ calls = <<>>
    /\ result = <<>>
    /\ raised = NoError

\* A behaviour is the life of one encoder: none has been constructed yet
Unbuilt == ctor = <<>>

\* what a constructor call leaves behind: the object (none if it raised),
\* in training mode, with fresh running statistics and no call made yet
Constructed(class, sequence_length, kernel_size, eil, ewl, lap, r) ==
    /\ ctor' = <<[class |-> class,
                  sequence_length |-> sequence_length,
                  kernel_size |-> kernel_size,
                  edge_index_list |-> eil,
                  edge_weight_list |-> ewl,
                  laplacian_type |-> lap,
                  raised |-> r.raised]>>
    /\ enc' = r.obj
    /\ training' = TRUE
    /\ running' = FreshStatistics
    /\ x' = <<>>
    /\ xs' = NoLocals
    /\ calls' = <<>>
    /\ result' = <<>>
    /\ raised' = NoError
    /\ UNCHANGED <<layer, pc>>

\* Encoder(pooling, kernel_size, edge_index_list, edge_weight_list, laplacian_type)
NewEncoder ==
    /\ pc = "idle"
    /\ Unbuilt
    /\ \E n \in ListLengths, m \in ListLengths, weighted \in BOOLEAN, lap \in LaplacianInputs :
          LET eil == EdgeIndexList(n)
              ewl == EdgeWeightList(m, weighted)
          IN  Constructed("Encoder", <<>>, KernelSize, eil, ewl, lap,
                          EncoderInit(Pooling, KernelSize, eil, ewl, lap))

\* EncoderTemporalConv(pooling, sequence_length, kernel_size, edge_index_list=...,
\*                     edge_weight_list=..., laplacian_type=...)
NewEncoderTemporalConv ==
    /\ pc = "idle"
    /\ Unbuilt
    /\ \E T \in 1..MaxSeqLen, n \in ListLengths, m \in ListLengths,
          weighted \in BOOLEAN, lap \in LaplacianInputs :
          LET eil == EdgeIndexList(n)
              ewl == EdgeWeightList(m, weighted)
          IN  Constructed("EncoderTemporalConv", <<T>>, KernelSize, eil, ewl, lap,
                          EncoderTemporalConvInit(Pooling, T, KernelSize, eil, ewl, lap))

\* SphericalChebConv(in_channels, out_channels, kernel_size, edge_index, edge_weight,
\*                   laplacian_type) constructed on its own
NewSphericalChebConv ==
    /\ pc = "idle"
    /\ layer = <<>>
    /\ \E weighted \in BOOLEAN, lap \in LaplacianInputs :
          layer' = <<[laplacian_type |-> lap] @@
                     SphericalChebConvInit(L5_IN, L5_MID, KernelSize, EdgeIndex(5),
                                           IF weighted THEN <<EdgeWeight(5)>> ELSE <<>>,
                                           lap)>>
    /\ UNCHANGED <<ctor, enc, training, running, pc, x, xs, calls, result, raised>>

\* nn.Module.train()
Train ==
    /\ pc = "idle"
    /\ enc # <<>>
    /\ training' = TRUE
    /\ UNCHANGED <<ctor, enc, layer, running, pc, x, xs, calls, result, raised>>

\* nn.Module.eval()
Eval ==
    /\ pc = "idle"
    /\ enc # <<>>
    /\ training' = FALSE
    /\ UNCHANGED <<ctor, enc, layer, running, pc, x, xs, calls, result, raised>>

\* Encoder.forward is called with a tensor
Forward ==
    /\ pc = "idle"
    /\ enc # <<>>
    /\ training => \A n \in BatchNormNames : running[n] < MaxTracked
    /\ \E t \in InputTensors : x' = <<t>>
    /\ xs' = NoLocals
    /\ calls' = <<>>
    /\ result' = <<>>
    /\ raised' = NoError
    /\ pc' = PcOf(5)
    /\ UNCHANGED <<ctor, enc, layer, training, running>>

\* one statement x_enc<l> = self.enc_l<l>(...) of Encoder.forward
Stage(l) ==
    /\ pc = PcOf(l)
    /\ LET arg == StageInput(l, x[1], xs)
           r == StageForward(enc[1], l, arg, training)
       IN  /\ running' = [n \in BatchNormNames |->
                            IF n \in r.tracked THEN running[n] + 1 ELSE running[n]]
           /\ IF r.raised # NoError
              THEN /\ raised' = r.raised
                   /\ pc' = "idle"
                   /\ UNCHANGED <<xs, calls>>
              ELSE /\ xs' = [xs EXCEPT ![l] = <<[r.out EXCEPT !.src = XEnc(l)]>>]
                   /\ calls' = Append(calls, [level |-> l, arg |-> arg,
                                              out |-> [r.out EXCEPT !.src = XEnc(l)],
                                              ops |-> r.ops])
                   /\ pc' = PcAfter(l)
                   /\ UNCHANGED raised
    /\ UNCHANGED <<ctor, enc, layer, training, x, result>>

EncL5 == Stage(5)

EncL4 == Stage(4)

EncL3 == Stage(3)

EncL2 == Stage(2)

EncL1 == Stage(1)

EncL0 == Stage(0)

\* return x_enc0, x_enc1, x_enc2, x_enc3, x_enc4
ForwardReturn ==
    /\ pc = "return"
    /\ result' = ReturnValue(xs)
    /\ pc' = "idle"
    /\ UNCHANGED <<ctor, enc, layer, training, running, x, xs, calls, raised>>

Next ==
    \/ NewEncoder
    \/ NewEncoderTemporalConv
    \/ NewSphericalChebConv
    \/ Train
    \/ Eval
    \/ Forward
    \/ EncL5
    \/ EncL4
    \/ EncL3
    \/ EncL2
    \/ EncL1
    \/ EncL0
    \/ ForwardReturn

Spec == Init /\ [][Next]_vars

(***************************************************************************)
(* Properties.                                                             *)
(***************************************************************************)
\* a forward call has ended (returned or raised)
CallOver == pc = "idle" /\ x # <<>>

\* the last call was made on a plain Encoder with a tensor [B x N5 x 16]
ValidEncoderCall ==
    /\ CallOver
    /\ enc[1].class = "Encoder"
    /\ x[1].nodes = NodeCount(5)
    /\ x[1].channels = 16

\* the channel widths of a returned tuple, x_enc0 first
WidthsOf(tuple) == [k \in 1..Len(tuple) |-> tuple[k].channels]

\* the node counts of a returned tuple grow strictly from x_enc0 to x_enc4
NodesDecreaseWithLevel(tuple) ==
    \A k \in 1..(Len(tuple) - 1) : tuple[k].nodes < tuple[k + 1].nodes

\* C1 as stated: for every input [B x N5 x 16], B >= 1, Encoder.forward returns
\* exactly 5 tensors x0..x4 whose node counts strictly decrease from level 4
\* down to level 0 and whose channel widths are [512, 512, 256, 128, 64].
C1_WidthsAsStated ==
    ValidEncoderCall =>
        /\ raised = NoError
        /\ Len(result) = 5
        /\ NodesDecreaseWithLevel(result)
        /\ WidthsOf(result) = <<512, 512, 256, 128, 64>>

\* C1 amended: for every input [B x N5 x 16], B >= 1, Encoder.forward returns
\* exactly 5 tensors x0..x4, each of batch size B, whose node counts strictly
\* decrease from level 4 down to level 0 and whose channel widths are
\* [512, 512, 512, 256, 128] for the levels [0, 1, 2, 3, 4].
C1_ForwardShapes ==
    ValidEncoderCall =>
        /\ raised = NoError
        /\ Len(result) = 5
        /\ \A k \in 1..5 : result[k].batch = x[1].batch
        /\ NodesDecreaseWithLevel(result)
        /\ WidthsOf(result) = <<512, 512, 512, 256, 128>>

\* a plain Encoder returned from a call on [B x N5 x 16]
C1_Witness == ValidEncoderCall /\ result # <<>>

\* C2: constructing an encoder with an edge_index_list or edge_weight_list whose
\* length is not exactly 6 raises at construction (the assert that realises the
\* configuration error) and no encoder is produced.
C2_BadLengthRaises ==
    (/\ ctor # <<>>
     /\ \/ Len(ctor[1].edge_index_list) # 6
        \/ Len(ctor[1].edge_weight_list) # 6)
    => /\ ctor[1].raised = "AssertionError"
       /\ enc = <<>>

\* an Encoder was constructed with 7 edge lists and 7 weight lists and raised
C2_Witness ==
    /\ ctor # <<>>
    /\ ctor[1].class = "Encoder"
    /\ Len(ctor[1].edge_index_list) = 7
    /\ Len(ctor[1].edge_weight_list) = 7
    /\ ctor[1].raised # NoError

\* C3: constructing SphericalChebConv with a laplacian_type outside
\* {"normalized", "combinatorial"} raises at construction before any buffer or
\* convolution is created, and an encoder constructed with such a value (and
\* well-formed lists) raises as well and is not produced.
C3_InvalidLaplacianRaises ==
    /\ (layer # <<>> /\ layer[1].laplacian_type \notin {"normalized", "combinatorial"})
       => /\ layer[1].raised = "AssertionError"
          /\ layer[1].obj[1].buffers = {}
          /\ layer[1].obj[1].chebconv = <<>>
    /\ (ctor # <<>> /\ ctor[1].laplacian_type \notin {"normalized", "combinatorial"})
       => /\ ctor[1].raised = "AssertionError"
          /\ enc = <<>>

\* a SphericalChebConv and an encoder with 6 levels were both constructed with an
\* invalid laplacian_type
C3_Witness ==
    /\ layer # <<>>
    /\ layer[1].laplacian_type = "invalid"
    /\ layer[1].raised # NoError
    /\ ctor # <<>>
    /\ ctor[1].laplacian_type = "invalid"
    /\ Len(ctor[1].edge_index_list) = 6
    /\ Len(ctor[1].edge_weight_list) = 6
    /\ ctor[1].raised # NoError

\* the last call was made on an EncoderTemporalConv with sequence_length = T and
\* a tensor [B x N5 x (16*T)]
ValidTemporalCall ==
    /\ CallOver
    /\ enc[1].class = "EncoderTemporalConv"
    /\ x[1].nodes = NodeCount(5)
    /\ x[1].channels = 16 * enc[1].sequence_length[1]

\* the last call was made on a plain Encoder with a tensor [B x N5 x (16*T)], T > 1
StackedCallOnPlainEncoder ==
    /\ CallOver
    /\ enc[1].class = "Encoder"
    /\ x[1].nodes = NodeCount(5)
    /\ \E T \in 2..MaxSeqLen : x[1].channels = 16 * T

\* C4: EncoderTemporalConv constructed with sequence_length = T accepts an input
\* [B x N5 x (16*T)] and its forward returns the 5 tensors, whereas a plain
\* Encoder called on an input of that shape with T > 1 raises (the channel
\* mismatch in the first convolution) and returns nothing.
C4_TemporalAcceptsStackedInput ==
    /\ ValidTemporalCall => (raised = NoError /\ Len(result) = 5)
    /\ StackedCallOnPlainEncoder => (raised = "RuntimeError" /\ result = <<>>)

\* an EncoderTemporalConv with sequence_length = 2 returned from a call on
\* [B x N5 x 32]
C4_Witness ==
    /\ ValidTemporalCall
    /\ enc[1].sequence_length = <<2>>
    /\ x[1].channels = 32
    /\ result # <<>>

\* the (in, out) channel widths of the convolution of a SphericalChebBN block
BlockWidths(bn) ==
    <<bn.spherical_cheb.chebconv[1].in_channels, bn.spherical_cheb.chebconv[1].out_channels>>

\* the plain Encoder built from the arguments of the last constructor call
PlainTwin ==
    EncoderInit(enc[1].pooling, ctor[1].kernel_size, ctor[1].edge_index_list,
                ctor[1].edge_weight_list, ctor[1].laplacian_type).obj[1]

\* C5: in EncoderTemporalConv the level-5 stage has input width 16*T and middle
\* width 32*T (the plain Encoder's 16 and 32 multiplied by sequence_length = T),
\* its output width stays 64, and the stages of levels 4..0 are those of the
\* plain Encoder.
C5_FinestStageWidenedByT ==
    (enc # <<>> /\ enc[1].class = "EncoderTemporalConv") =>
        LET T == enc[1].sequence_length[1]
        IN  /\ BlockWidths(enc[1].enc_l5.spherical_cheb_bn_1) = <<16 * T, 32 * T>>
            /\ BlockWidths(enc[1].enc_l5.spherical_cheb_bn_2) = <<32 * T, 64>>
            /\ enc[1].enc_l4 = PlainTwin.enc_l4
            /\ enc[1].enc_l3 = PlainTwin.enc_l3
            /\ enc[1].enc_l2 = PlainTwin.enc_l2
            /\ enc[1].enc_l1 = PlainTwin.enc_l1
            /\ enc[1].enc_l0 = PlainTwin.enc_l0

\* the graph (edge_index, edge_weight) held by the two convolutions of enc_l5
L5Graphs(e) ==
    {<<e.enc_l5.spherical_cheb_bn_1.spherical_cheb.edge_index[1],
       e.enc_l5.spherical_cheb_bn_1.spherical_cheb.edge_weight>>,
     <<e.enc_l5.spherical_cheb_bn_2.spherical_cheb.edge_index[1],
       e.enc_l5.spherical_cheb_bn_2.spherical_cheb.edge_weight>>}

\* entry number level (0-based) of the lists given to the last constructor call
GivenGraph(level) ==
    <<ctor[1].edge_index_list[level + 1], ctor[1].edge_weight_list[level + 1]>>

\* C6 as stated: in EncoderTemporalConv the widened first stage enc_l5 uses the
\* graph (edge list and weights) of the coarsest mesh level, level 0.
C6_TemporalUsesCoarsestGraph ==
    (enc # <<>> /\ enc[1].class = "EncoderTemporalConv") =>
        L5Graphs(enc[1]) = {GivenGraph(0)}

\* C6 amended: in EncoderTemporalConv the widened first stage enc_l5 uses the
\* last entry of the lists, which is the graph of level 5, the finest
\* (input-resolution) level: the same graph the plain Encoder uses for that
\* stage, and not the one of the coarsest level 0.
C6_TemporalUsesFinestGraph ==
    enc # <<>> =>
        /\ L5Graphs(enc[1]) = {GivenGraph(5)}
        /\ \A g \in L5Graphs(enc[1]) : g[1].mesh = 5 /\ g[1].nodes = NodeCount(5)
        /\ GivenGraph(0) \notin L5Graphs(enc[1])

\* an EncoderTemporalConv with sequence_length = 2 was constructed
C6_Witness ==
    /\ enc # <<>>
    /\ enc[1].class = "EncoderTemporalConv"
    /\ enc[1].sequence_length = <<2>>
    /\ enc[1].enc_l5.in_channels = 32

\* C7: a forward call whose input's node dimension differs from the level-5 node
\* count raises at once (in the level-5 stage) and never returns a result.
C7_NodeMismatchRaises ==
    (x # <<>> /\ x[1].nodes # NodeCount(5)) =>
        /\ result = <<>>
        /\ pc \in {"enc_l5", "idle"}
        /\ pc = "idle" => raised # NoError

\* C8: the output of every ConvBlock (SphericalChebBN.forward) holds no negative
\* value, whatever the input; so the stage outputs x_enc5..x_enc1 and the
\* returned x1, x2, x3, x4 hold no negative value.
C8_ConvBlockOutputNonNegative ==
    /\ \A l \in 1..5 : xs[l] # <<>> => ~xs[l][1].neg
    /\ \A i \in 1..Len(calls) : calls[i].level \in 1..5 => ~calls[i].out.neg
    /\ result # <<>> => \A k \in 2..5 : ~result[k].neg

\* a call on an input with negative values returned, and x0 (convolution
\* without activation) may be negative while x1..x4 are not
C8_Witness ==
    /\ result # <<>>
    /\ x[1].neg
    /\ result[1].neg
    /\ \A k \in 2..5 : ~result[k].neg

\* a step of a forward pass: its entry, one of its stages, or its return
ForwardStep == pc # "idle" \/ pc' # "idle"

\* the BatchNorm1d units of the stage of level l
StageUnits(l) ==
    CASE l = 5 -> {"enc_l5.bn_1", "enc_l5.bn_2"}
      [] l = 4 -> {"enc_l4.bn"}
      [] l = 3 -> {"enc_l3.bn"}
      [] l = 2 -> {"enc_l2.bn"}
      [] l = 1 -> {"enc_l1.bn"}
      [] l = 0 -> {}

\* C9: no step of a forward pass changes the encoder's modules, their buffers
\* (edge_index, edge_weight, lambda_max), the shared pooling operator or the
\* hierarchy given at construction; a forward pass changes nothing but the
\* running statistics, which a stage that completes in training mode updates
\* for its own normalization units and which stay as they are in evaluation mode.
C9_ForwardFrame ==
    [][ForwardStep =>
          /\ enc' = enc
          /\ ctor' = ctor
          /\ layer' = layer
          /\ training' = training
          /\ ~training => running' = running
          /\ \A l \in Levels :
                (training /\ pc = PcOf(l) /\ pc' = PcAfter(l)) =>
                    \A n \in BatchNormNames :
                        running'[n] = IF n \in StageUnits(l)
                                      THEN running[n] + 1 ELSE running[n]]_vars

\* a pass in training mode has updated the statistics of every unit once, and a
\* pass in evaluation mode has since run all its stages
C9_Witness ==
    /\ ~training
    /\ pc = "return"
    /\ \A n \in BatchNormNames : running[n] = 1

\* C10: Encoder.forward runs its stages in the order 5, 4, 3, 2, 1, 0, each
\* once; the level-5 stage is given the input, every later stage the output of
\* the stage before it; the returned tuple holds the outputs of the levels
\* 0, 1, 2, 3, 4 in that order and not the level-5 output.
C10_StagesInOrder ==
    /\ \A i \in 1..Len(calls) : calls[i].level = 6 - i
    /\ \A l \in Levels : pc = PcOf(l) => Len(calls) = 5 - l
    /\ pc = "return" => Len(calls) = 6
    /\ Len(calls) >= 1 => calls[1].arg = x[1]
    /\ \A i \in 2..Len(calls) : calls[i].arg = calls[i - 1].out
    /\ \A i \in 1..Len(calls) : calls[i].out.src = XEnc(calls[i].level)
    /\ result # <<>> =>
          /\ Len(calls) = 6
          /\ result = <<calls[6].out, calls[5].out, calls[4].out, calls[3].out, calls[2].out>>
          /\ \A k \in 1..5 : result[k] # calls[1].out

\* a forward call ran all six stages and returned
C10_Witness ==
    /\ result # <<>>
    /\ Len(calls) = 6
    /\ pc = "idle"

\* the SphericalChebConv of the stage of level l, for l in 0..4
PooledStageConv(e, l) ==
    CASE l = 4 -> e.enc_l4.spherical_cheb_bn.spherical_cheb
      [] l = 3 -> e.enc_l3.spherical_cheb_bn.spherical_cheb
      [] l = 2 -> e.enc_l2.spherical_cheb_bn.spherical_cheb
      [] l = 1 -> e.enc_l1.spherical_cheb_bn.spherical_cheb
      [] l = 0 -> e.enc_l0.spherical_cheb

\* the pooling module of the stage of level l, for l in 0..4
PooledStagePooling(e, l) ==
    CASE l = 4 -> e.enc_l4.pooling
      [] l = 3 -> e.enc_l3.pooling
      [] l = 2 -> e.enc_l2.pooling
      [] l = 1 -> e.enc_l1.pooling
      [] l = 0 -> e.enc_l0.pooling

\* how many times the stages run so far in this call invoked the pooling operator
PoolInvocations ==
    Cardinality({ij \in (1..Len(calls)) \X (1..4) :
                    /\ ij[2] <= Len(calls[ij[1]].ops)
                    /\ calls[ij[1]].ops[ij[2]] = "pool"})

\* C11: every stage of the levels 4, 3, 2, 1, 0 pools first and convolves after,
\* with the one pooling operator shared by all stages, so the convolution sees
\* the reduced node set, and it uses the graph of its own level
\* (edge_index_list[l], edge_weight_list[l]); the level-5 stage does not pool;
\* a forward pass that returns has invoked the pooling operator exactly 5 times.
C11_PoolThenConvolve ==
    /\ \A i \in 1..Len(calls) :
          IF calls[i].level = 5
          THEN \A j \in 1..Len(calls[i].ops) : calls[i].ops[j] # "pool"
          ELSE /\ calls[i].ops[1] = "pool"
               /\ calls[i].ops[2] = "conv"
               /\ \A j \in 2..Len(calls[i].ops) : calls[i].ops[j] # "pool"
               /\ calls[i].out.nodes = calls[i].arg.nodes \div enc[1].pooling.ratio
    /\ enc # <<>> =>
          \A l \in 0..4 :
             /\ PooledStageConv(enc[1], l).edge_index = <<GivenGraph(l)[1]>>
             /\ PooledStageConv(enc[1], l).edge_weight = GivenGraph(l)[2]
             /\ PooledStagePooling(enc[1], l) = enc[1].pooling
    /\ pc = "return" => PoolInvocations = 5
    /\ result # <<>> => PoolInvocations = 5

\* a forward call returned after its five pooled stages ran, the last of them
\* the level-0 stage on the level-0 graph
C11_Witness ==
    /\ result # <<>>
    /\ PoolInvocations = 5
    /\ calls[6].level = 0
    /\ calls[6].ops[1] = "pool"
    /\ calls[6].out.nodes = NodeCount(0)

\* C12: the level-0 stage is a SphericalChebPool of widths 512 -> 512 that pools
\* and convolves and neither normalizes nor activates; it is the only stage
\* built that way (levels 4..1 are SphericalChebBNPool, which normalize and
\* activate, level 5 is the SphericalChebBN2); so of the returned tensors x0 is
\* the only one that may hold negative values.
C12_TerminalStageWithoutNorm ==
    /\ enc # <<>> =>
          /\ enc[1].enc_l0.class = "SphericalChebPool"
          /\ enc[1].enc_l0.spherical_cheb.chebconv[1].in_channels = 512
          /\ enc[1].enc_l0.spherical_cheb.chebconv[1].out_channels = 512
          /\ \A m \in {enc[1].enc_l4, enc[1].enc_l3, enc[1].enc_l2, enc[1].enc_l1} :
                m.class = "SphericalChebBNPool"
          /\ enc[1].enc_l5.class = "SphericalChebBN2"
    /\ \A i \in 1..Len(calls) :
          calls[i].ops = CASE calls[i].level = 0 -> <<"pool", "conv">>
                           [] calls[i].level \in 1..4 -> <<"pool", "conv", "bn", "relu">>
                           [] calls[i].level = 5 ->
                                <<"conv", "bn", "relu", "conv", "bn", "relu">>
    /\ result # <<>> =>
          /\ result[1].neg
          /\ \A k \in 2..5 : ~result[k].neg

\* a forward call returned whose level-0 stage pooled and convolved only,
\* leaving x0 with values of any sign
C12_Witness ==
    /\ result # <<>>
    /\ calls[6].level = 0
    /\ calls[6].ops = <<"pool", "conv">>
    /\ calls[6].out.channels = 512
    /\ result[1] = calls[6].out
    /\ result[1].neg

====
